---- MODULE Spec2Model ----
(***************************************************************************)
(* Distributed authorization subsystem of image-api                        *)
(* (app/core/authorization.py): BucketValidator, AuthAPIClient,            *)
(* CircuitBreaker, AuthorizationCache and AuthorizationService, with the   *)
(* shared Redis store and the remote auth-api as environment.              *)
(*                                                                         *)
(* Every coroutine is cut at its awaits: one action per Redis command or   *)
(* HTTP round trip, so that concurrent check_access calls interleave the   *)
(* way asyncio tasks and separate service instances do.                    *)
(***************************************************************************)
EXTENDS Naturals, Integers, Sequences, FiniteSets, TLC

\* Python's None.  Distinct from every string the model feeds in.
NULL == "<None>"

\* f"{x}": str() of a value inside an f-string; None is rendered as "None".
Str(x) == IF x = NULL THEN "None" ELSE x

(***************************************************************************)
(* Settings (app/core/config.py)                                           *)
(***************************************************************************)
CIRCUIT_BREAKER_THRESHOLD == 5
CIRCUIT_BREAKER_TIMEOUT == 60
AUTH_CACHE_TTL_ALLOWED == 60
AUTH_CACHE_TTL_DENIED == 120

\* The defaults of Settings, and the deployments the model explores.
DefaultSettings ==
    [ AUTH_FAIL_OPEN |-> FALSE, BUCKET_VALIDATION_STRICT |-> TRUE,
      AUTH_CACHE_ENABLED |-> TRUE, CIRCUIT_BREAKER_ENABLED |-> TRUE ]

(***************************************************************************)
(* Bounds of the model                                                     *)
(***************************************************************************)
\* The clock advances in steps of TickStep seconds up to MaxTime.
TickStep == 60
MaxTime == 120
\* No call starts once the failure counter stands this high (it does only
\* when open() keeps failing in the store).
MaxFailures == 8

(***************************************************************************)
(* BucketValidator                                                         *)
(***************************************************************************)
\* The character class [a-zA-Z0-9\-_] of the bucket patterns.
IdChars ==
    { "a","b","c","d","e","f","g","h","i","j","k","l","m","n","o","p","q","r",
      "s","t","u","v","w","x","y","z",
      "A","B","C","D","E","F","G","H","I","J","K","L","M","N","O","P","Q","R",
      "S","T","U","V","W","X","Y","Z",
      "0","1","2","3","4","5","6","7","8","9","-","_" }

CharAt(s, i) == SubSeq(s, i, i)

\* The literal lit occurs in s at position i.
LitAt(s, lit, i) ==
    /\ i + Len(lit) - 1 <= Len(s)
    /\ SubSeq(s, i, i + Len(lit) - 1) = lit

\* ([a-zA-Z0-9\-_]+) is greedy and every pattern continues with "/" or the
\* end, neither of which is in the class: the group is the maximal run.
\* IdRunEnd is the first position at or after i that is not in the class.
RECURSIVE IdRunEnd(_, _)
IdRunEnd(s, i) ==
    IF i <= Len(s) /\ CharAt(s, i) \in IdChars THEN IdRunEnd(s, i + 1) ELSE i

\* "$" of Python's re: the end of the string, or just before a final newline.
AtEnd(s, i) == \/ i = Len(s) + 1
               \/ i = Len(s) /\ CharAt(s, i) = "\n"

\* "/?$"
\* Mutant: the trailing slash is required.
OptSlashEnd_SlashRequired(s, i) == LitAt(s, "/", i) /\ AtEnd(s, i + 1)

OptSlashEnd(s, i) == AtEnd(s, i) \/ (LitAt(s, "/", i) /\ AtEnd(s, i + 1))

NoMatch == [ok |-> FALSE, g1 |-> NULL, g2 |-> NULL]

\* ^<pre>(ID)<mid>(ID)/?$
MatchTwoIds(s, pre, mid) ==
    LET a == Len(pre) + 1
        b == IdRunEnd(s, a)
        c == b + Len(mid)
        d == IdRunEnd(s, c)
    IN  IF /\ LitAt(s, pre, 1) /\ b > a
           /\ LitAt(s, mid, b) /\ d > c
           /\ OptSlashEnd(s, d)
        THEN [ok |-> TRUE, g1 |-> SubSeq(s, a, b - 1), g2 |-> SubSeq(s, c, d - 1)]
        ELSE NoMatch

\* ^<pre>(ID)<post>/?$   (post may be empty)
MatchOneId(s, pre, post) ==
    LET a == Len(pre) + 1
        b == IdRunEnd(s, a)
    IN  IF /\ LitAt(s, pre, 1) /\ b > a
           /\ LitAt(s, post, b)
           /\ OptSlashEnd(s, b + Len(post))
        THEN [ok |-> TRUE, g1 |-> SubSeq(s, a, b - 1), g2 |-> NULL]
        ELSE NoMatch

\* ^<lit>/?$
MatchLiteral(s, lit) ==
    IF LitAt(s, lit, 1) /\ OptSlashEnd(s, Len(lit) + 1)
    THEN [ok |-> TRUE, g1 |-> NULL, g2 |-> NULL]
    ELSE NoMatch

GROUP_PATTERN(s) == MatchTwoIds(s, "org-", "/groups/")
USER_PATTERN(s) == MatchTwoIds(s, "org-", "/users/")
SYSTEM_PATTERN(s) == MatchOneId(s, "org-", "/system")
GROUP_PATTERN_SIMPLE(s) == MatchOneId(s, "groups/", "")
USER_PATTERN_SIMPLE(s) == MatchOneId(s, "users/", "")
SYSTEM_PATTERN_SIMPLE(s) == MatchLiteral(s, "system")

BucketInfo(type, org, res, raw) ==
    [bucket_type |-> type, org_id |-> org, resource_id |-> res,
     original_bucket |-> raw]

NoInfo == BucketInfo(NULL, NULL, NULL, NULL)

\* parse returns a BucketInfo or raises HTTPException(status_code, detail).
Parsed(info) == [raised |-> FALSE, status |-> 200, detail |-> "", info |-> info]
ParseError(code, msg) == [raised |-> TRUE, status |-> code, detail |-> msg, info |-> NoInfo]

\* BucketValidator.parse
parse(bucket, strict) ==
    IF bucket = "" THEN ParseError(400, "Bucket must be a non-empty string")
    ELSE IF GROUP_PATTERN(bucket).ok
    THEN Parsed(BucketInfo("group", GROUP_PATTERN(bucket).g1,
                           GROUP_PATTERN(bucket).g2, bucket))
    ELSE IF USER_PATTERN(bucket).ok
    THEN Parsed(BucketInfo("user", USER_PATTERN(bucket).g1,
                           USER_PATTERN(bucket).g2, bucket))
    ELSE IF SYSTEM_PATTERN(bucket).ok
    THEN Parsed(BucketInfo("system", SYSTEM_PATTERN(bucket).g1, NULL, bucket))
    ELSE IF GROUP_PATTERN_SIMPLE(bucket).ok
    THEN Parsed(BucketInfo("group", NULL, GROUP_PATTERN_SIMPLE(bucket).g1, bucket))
    ELSE IF USER_PATTERN_SIMPLE(bucket).ok
    THEN Parsed(BucketInfo("user", NULL, USER_PATTERN_SIMPLE(bucket).g1, bucket))
    ELSE IF SYSTEM_PATTERN_SIMPLE(bucket).ok
    THEN Parsed(BucketInfo("system", NULL, NULL, bucket))
    ELSE IF strict
    THEN ParseError(400, "Invalid bucket format")
    ELSE Parsed(BucketInfo("system", "default-org", NULL, bucket))

(***************************************************************************)
(* The shared Redis store: a function from the keys that exist to their    *)
(* values.  A cache entry carries the time at which SETEX expires it.      *)
(***************************************************************************)
REDIS_KEY_STATE == "auth:circuit_breaker:state"
REDIS_KEY_FAILURES == "auth:circuit_breaker:failures"
REDIS_KEY_OPENED_AT == "auth:circuit_breaker:opened_at"

Exists(r, k) == k \in DOMAIN r
RedisSet(r, k, v) == [x \in DOMAIN r \cup {k} |-> IF x = k THEN v ELSE r[x]]
RedisDelete(r, k) == [x \in DOMAIN r \ {k} |-> r[x]]
\* Mutant: a read-modify-write whose write lands on a newer value.
RedisIncr_LostUpdate(r, k) == RedisSet(r, k, IF Exists(r, k) THEN r[k] ELSE 1)

\* INCR: atomic in the store; a missing key counts as 0.
RedisIncr(r, k) == RedisSet(r, k, IF Exists(r, k) THEN r[k] + 1 ELSE 1)
RedisSetex(r, k, ttl, v, t) == RedisSet(r, k, [val |-> v, exp |-> t + ttl])
\* GET of a cache key: the stored bytes, or None.
CacheValue(r, k) == IF Exists(r, k) THEN r[k].val ELSE NULL

\* datetime.isoformat() / datetime.fromisoformat(): the text form of a time.
isoformat(t) == [iso |-> t]
fromisoformat(s) == s.iso

(***************************************************************************)
(* AuthAPIClient                                                           *)
(***************************************************************************)
\* What one POST to the auth-api can come to: a status code, a timeout, a
\* connection failure, or an exception httpx raises outside RequestError.
\* A 200 carries a body with the allowed indicator: "200" stands for
\* {"allowed": true}, "200_denied" for {"allowed": false}.
Status200 == {"200", "200_denied"}
OkResponses == Status200 \cup {"403"}
FaultResponses == {"500", "timeout", "request_error", "unexpected"}
Responses == OkResponses \cup FaultResponses

\* The outcome of a call: a returned bool, an HTTPException, or another
\* exception that escapes check_permission.
Returned(b) == [kind |-> "return", value |-> b, status |-> 200, detail |-> ""]
HttpError(code, msg) == [kind |-> "http", value |-> FALSE, status |-> code, detail |-> msg]
OtherError == [kind |-> "exception", value |-> FALSE, status |-> 0, detail |-> ""]

\* Mutant: a 403 handled like any other non-200 status.
check_permission_403_Error(resp) ==
    IF resp \in Status200 THEN Returned(TRUE)
    ELSE IF resp = "timeout" THEN HttpError(503, "Authorization service timeout")
    ELSE IF resp = "request_error" THEN HttpError(503, "Authorization service unreachable")
    ELSE IF resp = "unexpected" THEN OtherError
    ELSE HttpError(503, "Authorization service unavailable")

\* Mutant: an error status of the auth-api taken for a denial.
check_permission_500_Denied(resp) ==
    IF resp \in Status200 THEN Returned(TRUE)
    ELSE IF resp = "timeout" THEN HttpError(503, "Authorization service timeout")
    ELSE IF resp = "request_error" THEN HttpError(503, "Authorization service unreachable")
    ELSE IF resp = "unexpected" THEN OtherError
    ELSE Returned(FALSE)

\* AuthAPIClient.check_permission: the status code decides, the body of a
\* 200 is not read.
check_permission(resp) ==
    IF resp \in Status200 THEN Returned(TRUE)
    ELSE IF resp = "403" THEN Returned(FALSE)
    ELSE IF resp = "timeout" THEN HttpError(503, "Authorization service timeout")
    ELSE IF resp = "request_error" THEN HttpError(503, "Authorization service unreachable")
    ELSE IF resp = "unexpected" THEN OtherError
    ELSE HttpError(503, "Authorization service unavailable")

(***************************************************************************)
(* CircuitBreaker: the decisions of is_open, record_failure and execute    *)
(***************************************************************************)
\* Mutant: is_open never sees the OPEN state.
StateIsOpen_Never(r) == FALSE

\* is_open: state != b"OPEN" is "not blocking".
StateIsOpen(r) == Exists(r, REDIS_KEY_STATE) /\ r[REDIS_KEY_STATE] = "OPEN"

\* The failure counter; INCR and DEL treat a missing key as 0.
Failures(r) == IF Exists(r, REDIS_KEY_FAILURES) THEN r[REDIS_KEY_FAILURES] ELSE 0

\* The phase the store holds: the state key is "OPEN" or does not exist.
Phase(r) ==
    IF ~Exists(r, REDIS_KEY_STATE) THEN "closed"
    ELSE IF r[REDIS_KEY_STATE] = "OPEN" THEN "open"
    ELSE IF r[REDIS_KEY_STATE] = "HALF_OPEN" THEN "half_open"
    ELSE "closed"

\* is_open: opened_at is set and utcnow() - opened_time > timedelta(timeout).
TimeoutExpired(r, t) ==
    /\ Exists(r, REDIS_KEY_OPENED_AT)
    /\ t - fromisoformat(r[REDIS_KEY_OPENED_AT]) > CIRCUIT_BREAKER_TIMEOUT

\* Mutant: the breaker trips one failure late.
ThresholdReached_Late(failures) == failures > CIRCUIT_BREAKER_THRESHOLD

\* record_failure: failures >= self.threshold
ThresholdReached(failures) == failures >= CIRCUIT_BREAKER_THRESHOLD

\* execute: which outcomes of func() are recorded as a failure.
\* Mutant: only exceptions other than HTTPException are recorded.
CountsAsFailure_OnlyUnexpected(out) == out.kind = "exception"

CountsAsFailure(out) ==
    \/ out.kind = "http" /\ out.status >= 500
    \/ out.kind = "exception"

\* execute: the HTTPException that leaves execute after a failed func().
ExecuteError(out) ==
    IF out.kind = "exception" THEN "Authorization service error" ELSE out.detail

(***************************************************************************)
(* AuthorizationCache                                                      *)
(***************************************************************************)
\* AuthorizationCache._make_key
make_key(org_id, user_id, permission) ==
    "auth:permission:" \o Str(org_id) \o ":" \o Str(user_id) \o ":" \o permission

\* Mutant: every cache hit read as a grant.
CachedAllowed_AnyHit(value) == value /= NULL

\* get: allowed = value == b"1"
\* Mutant: the cached bytes read the wrong way round.
CachedAllowed_Inverted(value) == value = "0"

CachedAllowed(value) == value = "1"

\* set: value and ttl by outcome
\* Mutant: every decision is stored as a grant.
CacheBytes_AlwaysOne(allowed) == "1"

CacheBytes(allowed) == IF allowed THEN "1" ELSE "0"
\* Mutant: denials are kept no longer than grants.
CacheTtl_DeniedAsAllowed(allowed) == AUTH_CACHE_TTL_ALLOWED

CacheTtl(allowed) == IF allowed THEN AUTH_CACHE_TTL_ALLOWED ELSE AUTH_CACHE_TTL_DENIED

(***************************************************************************)
(* AuthorizationService: the synchronous head of check_access              *)
(***************************************************************************)
\* What check_access returns (True) or raises (HTTPException).
Granted == [raised |-> FALSE, status |-> 200, detail |-> ""]
Raise(code, msg) == [raised |-> TRUE, status |-> code, detail |-> msg]
\* redis.RedisError leaving check_access: not an HTTPException, the
\* application answers it with 500.
RedisError == Raise(500, "redis.RedisError")
\* _check_group_permission, after the cache write: the verdict.
\* Mutant: the verdict is a grant whatever execute returned.
Verdict_AlwaysGranted(allowed) == Granted

Verdict(allowed) == IF allowed THEN Granted ELSE Raise(403, "Permission denied")
NoResult == [raised |-> FALSE, status |-> 0, detail |-> ""]

\* Mutant: the org check made on the group path only.
OrgMismatch_GroupOnly(info, auth) ==
    /\ info.bucket_type = "group"
    /\ info.org_id /= NULL
    /\ auth.org_id /= NULL
    /\ info.org_id /= auth.org_id

\* check_access: the org check, made only if both sides carry an org_id.
OrgMismatch(info, auth) ==
    /\ info.org_id /= NULL
    /\ auth.org_id /= NULL
    /\ info.org_id /= auth.org_id

\* Mutant: the group permission without the id of the group.
build_permission_NoGroupId(base_permission, info) ==
    IF info.bucket_type = "group"
    THEN base_permission \o ":group"
    ELSE IF info.bucket_type = "user"
    THEN base_permission \o ":user:" \o Str(info.resource_id)
    ELSE base_permission \o ":system"

\* AuthorizationService._build_permission
build_permission(base_permission, info) ==
    IF info.bucket_type = "group"
    THEN base_permission \o ":group:" \o Str(info.resource_id)
    ELSE IF info.bucket_type = "user"
    THEN base_permission \o ":user:" \o Str(info.resource_id)
    ELSE base_permission \o ":system"

\* Mutant: a system bucket checked like a group bucket.
Dispatch_SystemViaAuthority(auth, permission, bucket, strict) ==
    LET parsed == parse(bucket, strict)
        info == parsed.info
    IN  IF parsed.raised
        THEN [next |-> "done", result |-> Raise(parsed.status, parsed.detail),
              permission |-> NULL]
        ELSE IF OrgMismatch(info, auth)
        THEN [next |-> "done", result |-> Raise(403, "Organization ID mismatch"),
              permission |-> NULL]
        ELSE IF info.bucket_type = "user"
        THEN [next |-> "done",
              result |-> IF info.resource_id = auth.user_id
                         THEN Granted
                         ELSE Raise(403, "Cannot access another user's bucket"),
              permission |-> build_permission(permission, info)]
        ELSE [next |-> "cache_get", result |-> NoResult,
              permission |-> build_permission(permission, info)]

\* Mutant: a user bucket open to every user of the organisation.
Dispatch_UserNoOwnerCheck(auth, permission, bucket, strict) ==
    LET parsed == parse(bucket, strict)
        info == parsed.info
    IN  IF parsed.raised
        THEN [next |-> "done", result |-> Raise(parsed.status, parsed.detail),
              permission |-> NULL]
        ELSE IF OrgMismatch(info, auth)
        THEN [next |-> "done", result |-> Raise(403, "Organization ID mismatch"),
              permission |-> NULL]
        ELSE IF info.bucket_type \in {"user", "system"}
        THEN [next |-> "done", result |-> Granted,
              permission |-> build_permission(permission, info)]
        ELSE [next |-> "cache_get", result |-> NoResult,
              permission |-> build_permission(permission, info)]

\* check_access up to its first await: parse, org check, the user and system
\* shortcuts.  next = "cache_get" hands over to _check_group_permission.
Dispatch(auth, permission, bucket, strict) ==
    LET parsed == parse(bucket, strict)
        info == parsed.info
    IN  IF parsed.raised
        THEN [next |-> "done", result |-> Raise(parsed.status, parsed.detail),
              permission |-> NULL]
        ELSE IF OrgMismatch(info, auth)
        THEN [next |-> "done", result |-> Raise(403, "Organization ID mismatch"),
              permission |-> NULL]
        ELSE IF info.bucket_type = "user"
        THEN [next |-> "done",
              result |-> IF info.resource_id = auth.user_id
                         THEN Granted
                         ELSE Raise(403, "Cannot access another user's bucket"),
              permission |-> build_permission(permission, info)]
        ELSE IF info.bucket_type = "system"
        THEN [next |-> "done", result |-> Granted,
              permission |-> build_permission(permission, info)]
        ELSE [next |-> "cache_get", result |-> NoResult,
              permission |-> build_permission(permission, info)]

\* get_images_batch: what the response holds for one image, given what the
\* check_access behind require_bucket_read_access returned or raised: the
\* url, or nothing (every HTTPException is caught and the image skipped).
get_images_batch_item(res) == IF res.raised THEN "omitted" ELSE "url"

(***************************************************************************)
(* State                                                                   *)
(***************************************************************************)
\* Concurrent check_access calls: coroutines of one instance or of several
\* instances; they share nothing but the Redis store.
Procs == {"p1", "p2"}

VARIABLES
    cfg,        \* the Settings of the deployment
    now,        \* datetime.utcnow(), in seconds
    redis,      \* the shared store
    pc,         \* pc[p]: where call p stands
    req,        \* req[p]: the arguments of call p
    loc,        \* loc[p]: the locals of call p, and what it has seen so far
    result,     \* result[p]: what call p returned or raised
    io,         \* io[p]: the collaborators call p has touched
    faulted,    \* history: some auth-api call has failed
    probing,    \* history: a timeout reset happened, no outcome recorded since
    run,        \* history: record_failure calls since the counter was last deleted
    written,    \* history: the last entry a cache.set wrote, and when
    store_down, \* the store client raises on every command
    was_set,    \* history: the (org, user, permission) cache.set has written for
    upload_rate_limits, \* the SQLite table: (user_id, window_start) -> upload_count
    allowed_calls       \* history: check_rate_limit calls that returned allowed=True

vars == <<cfg, now, redis, pc, req, loc, result, io, faulted, probing, run,
          written, store_down, was_set, upload_rate_limits, allowed_calls>>

Identity(user, org) == [user_id |-> user, org_id |-> org]
Request(auth, permission, bucket) ==
    [auth |-> auth, permission |-> permission, bucket |-> bucket]
NoRequest == Request(Identity(NULL, NULL), NULL, NULL)

NoLocals ==
    [ permission |-> NULL,    \* required_permission
      cached |-> NULL,        \* the bytes cache.get read, None on a miss
      key |-> NULL,           \* the cache key it read
      resp |-> NULL,          \* what the auth-api call came to
      allowed |-> FALSE,      \* the bool execute returned
      exc |-> "",             \* the detail of the exception in flight
      blocked |-> FALSE,      \* is_open returned True
      did_reset |-> FALSE,    \* is_open ran reset() in this call
      pre_failures |-> 0,     \* the failure counter when is_open chose reset()
      pre_tripped |-> FALSE,  \* the call started after a full run of failures
      trial |-> FALSE,        \* is_open let the call pass while probing
      store_error |-> "",     \* the first command the store failed in this call
      read_at |-> 0,          \* when cache.get read the store
      window_start |-> 0,     \* check_rate_limit: the hour the call began in
      current_count |-> 0 ]   \* check_rate_limit: the upload_count its SELECT read

\* What a cache.set wrote.
Write(key, allowed, t) == [key |-> key, allowed |-> allowed, at |-> t]
NoWrite == Write(NULL, FALSE, 0)

\* The inputs of the concurrent specification and of the sequential one.
ConcSettings == { DefaultSettings }
SeqSettings ==
    { DefaultSettings,
      [DefaultSettings EXCEPT !.AUTH_FAIL_OPEN = TRUE],
      [DefaultSettings EXCEPT !.BUCKET_VALIDATION_STRICT = FALSE],
      [DefaultSettings EXCEPT !.AUTH_CACHE_ENABLED = FALSE],
      [DefaultSettings EXCEPT !.CIRCUIT_BREAKER_ENABLED = FALSE] }

ConcRequests ==
    { Request(Identity("u1", "abc"), "image:upload", "org-abc/groups/xyz/") }
SeqIdentities ==
    { Identity("u1", "abc"), Identity("u2", "zzz"), Identity("u1", NULL) }
SeqBuckets ==
    { "org-abc/groups/xyz/", "org-abc/users/u1/", "org-abc/system/",
      "groups/xyz", "users/u2", "system", "photos", "" }
SeqRequests ==
    { Request(a, "image:upload", b) : a \in SeqIdentities, b \in SeqBuckets }

InitWith(settings) ==
    /\ cfg \in settings
    /\ now = 0
    /\ redis = [k \in {} |-> 0]
    /\ pc = [p \in Procs |-> "idle"]
    /\ req = [p \in Procs |-> NoRequest]
    /\ loc = [p \in Procs |-> NoLocals]
    /\ result = [p \in Procs |-> NoResult]
    /\ io = [p \in Procs |-> {}]
    /\ faulted = FALSE
    /\ probing = FALSE
    /\ run = 0
    /\ written = NoWrite
    /\ store_down = FALSE
    /\ was_set = {}
    /\ upload_rate_limits = [k \in {} |-> 0]
    /\ allowed_calls = [k \in {} |-> 0]

Init == InitWith(ConcSettings)
InitSeq == InitWith(SeqSettings)

\* The inputs of the specification of the cache on its own.
CacheSettings ==
    { DefaultSettings, [DefaultSettings EXCEPT !.AUTH_CACHE_ENABLED = FALSE] }
Triple(org, user, permission) ==
    [org_id |-> org, user_id |-> user, permission |-> permission]
CacheTriples ==
    { Triple("abc", "u1", "image:upload:group:xyz"),
      Triple(NULL, "u1", "image:read"),
      Triple("abc", "u1", "image:read"),
      Triple("abc", "u1:image", "read"),
      Triple("abc", "u1", "image:delete") }
InitCache == InitWith(CacheSettings)

\* The inputs of the specification of the validator on its own: every
\* recognized format over a few ids, with and without the trailing slash,
\* and strings that are none of them.
ParseSettings ==
    { DefaultSettings, [DefaultSettings EXCEPT !.BUCKET_VALIDATION_STRICT = FALSE] }
Orgs == {"abc", "a-1_B", "9"}
Ids == {"xyz", "u1", "G_2"}
Slash == {"", "/"}
ShapeInputs ==
    { "org-" \o o \o "/groups/" \o i \o s : o \in Orgs, i \in Ids, s \in Slash }
    \cup { "org-" \o o \o "/users/" \o i \o s : o \in Orgs, i \in Ids, s \in Slash }
    \cup { "org-" \o o \o "/system" \o s : o \in Orgs, s \in Slash }
    \cup { "groups/" \o i \o s : i \in Ids, s \in Slash }
    \cup { "users/" \o i \o s : i \in Ids, s \in Slash }
    \cup { "system" \o s : s \in Slash }
OtherInputs ==
    { "", "photos", "org-abc", "org-abc/", "org-/groups/xyz", "org-abc/groups/",
      "org-abc/groups/xyz//", "org-abc/groups/x.z", "org-abc/system/extra",
      "Groups/xyz", "groups/", "/system", " system", "system//",
      "system\n", "groups/xyz/\n", "org-abc/users/u1\n" }
ParseInputs == ShapeInputs \cup OtherInputs
InitParse == InitWith(ParseSettings)

(***************************************************************************)
(* Steps of a call                                                         *)
(***************************************************************************)
Goto(p, label) == pc' = [pc EXCEPT ![p] = label]
Finished(p, res) == /\ pc' = [pc EXCEPT ![p] = "done"]
                    /\ result' = [result EXCEPT ![p] = res]
Touch(p, what) == io' = [io EXCEPT ![p] = @ \cup {what}]
History == <<faulted, probing, run>>
Db == <<upload_rate_limits, allowed_calls>>
Env == <<written, store_down, was_set, Db>>

\* check_access is called: everything before the first await.
Start(p, requests) ==
    /\ pc[p] = "idle"
    /\ Failures(redis) < MaxFailures
    /\ \E r \in requests :
         LET d == Dispatch(r.auth, r.permission, r.bucket,
                           cfg.BUCKET_VALIDATION_STRICT)
         IN  /\ req' = [req EXCEPT ![p] = r]
             /\ loc' = [loc EXCEPT ![p] =
                          [NoLocals EXCEPT !.permission = d.permission,
                                           !.pre_tripped = (run >= CIRCUIT_BREAKER_THRESHOLD)]]
             /\ pc' = [pc EXCEPT ![p] = d.next]
             /\ result' = [result EXCEPT ![p] = d.result]
             /\ io' = [io EXCEPT ![p] = {}]
    /\ UNCHANGED <<cfg, now, redis, History, Env>>

\* A command fails in the store client: redis.RedisError leaves check_access.
Fails(p, op) ==
    /\ Finished(p, RedisError)
    /\ loc' = [loc EXCEPT ![p].store_error = op]

\* _check_group_permission: cached = await self.cache.get(...)
CacheGet(p) ==
    /\ pc[p] = "cache_get"
    /\ IF cfg.AUTH_CACHE_ENABLED /\ store_down
       THEN Fails(p, "cache_get") /\ UNCHANGED io
       ELSE LET key == make_key(req[p].auth.org_id, req[p].auth.user_id,
                                loc[p].permission)
                value == IF cfg.AUTH_CACHE_ENABLED THEN CacheValue(redis, key) ELSE NULL
            IN  /\ loc' = [loc EXCEPT ![p].cached = value, ![p].key = key,
                                      ![p].read_at = now]
                /\ io' = [io EXCEPT ![p] = IF cfg.AUTH_CACHE_ENABLED
                                           THEN @ \cup {"cache_get"} ELSE @]
                /\ IF value = NULL
                   THEN Goto(p, "cb_get_state") /\ UNCHANGED result
                   ELSE Finished(p, IF CachedAllowed(value) THEN Granted
                                    ELSE Raise(403, "Permission denied (cached)"))
    /\ UNCHANGED <<cfg, now, redis, req, History, Env>>

\* is_open: state = await self.redis.get(REDIS_KEY_STATE)
CbGetState(p) ==
    /\ pc[p] = "cb_get_state"
    /\ IF ~cfg.CIRCUIT_BREAKER_ENABLED
       THEN Goto(p, "call") /\ UNCHANGED <<io, loc, result>>
       ELSE IF store_down
       THEN Fails(p, "cb_read") /\ UNCHANGED io
       ELSE /\ Touch(p, "cb_read")
            /\ loc' = [loc EXCEPT ![p].trial = probing /\ ~StateIsOpen(redis)]
            /\ Goto(p, IF StateIsOpen(redis) THEN "cb_get_opened_at" ELSE "call")
            /\ UNCHANGED result
    /\ UNCHANGED <<cfg, now, redis, req, History, Env>>

\* is_open: opened_at = await self.redis.get(REDIS_KEY_OPENED_AT), and the
\* decision between reset() and "blocked"; blocked, execute raises 503.
CbGetOpenedAt(p) ==
    /\ pc[p] = "cb_get_opened_at"
    /\ IF store_down
       THEN Fails(p, "cb_read") /\ UNCHANGED <<io, probing>>
       ELSE /\ Touch(p, "cb_read")
            /\ IF TimeoutExpired(redis, now)
               THEN /\ Goto(p, "reset_state")
                    /\ loc' = [loc EXCEPT ![p].did_reset = TRUE, ![p].trial = TRUE,
                                          ![p].pre_failures = Failures(redis)]
                    /\ probing' = TRUE
                    /\ UNCHANGED result
               ELSE /\ Finished(p, Raise(503, "Authorization service temporarily unavailable"))
                    /\ loc' = [loc EXCEPT ![p].blocked = TRUE]
                    /\ UNCHANGED probing
    /\ UNCHANGED <<cfg, now, redis, req, faulted, run, Env>>

\* reset: the three DELs, each its own round trip.
ResetState(p) ==
    /\ pc[p] = "reset_state"
    /\ IF store_down
       THEN Fails(p, "cb_write") /\ UNCHANGED <<redis, io>>
       ELSE /\ redis' = RedisDelete(redis, REDIS_KEY_STATE)
            /\ Touch(p, "cb_write")
            /\ Goto(p, "reset_failures")
            /\ UNCHANGED <<loc, result>>
    /\ UNCHANGED <<cfg, now, req, History, Env>>

ResetFailures(p) ==
    /\ pc[p] = "reset_failures"
    /\ IF store_down
       THEN Fails(p, "cb_write") /\ UNCHANGED <<redis, run>>
       ELSE /\ redis' = RedisDelete(redis, REDIS_KEY_FAILURES)
            /\ run' = 0
            /\ Goto(p, "reset_opened_at")
            /\ UNCHANGED <<loc, result>>
    /\ UNCHANGED <<cfg, now, req, io, faulted, probing, Env>>

ResetOpenedAt(p) ==
    /\ pc[p] = "reset_opened_at"
    /\ IF store_down
       THEN Fails(p, "cb_write") /\ UNCHANGED redis
       ELSE /\ redis' = RedisDelete(redis, REDIS_KEY_OPENED_AT)
            /\ Goto(p, "call")
            /\ UNCHANGED <<loc, result>>
    /\ UNCHANGED <<cfg, now, req, io, History, Env>>

\* execute: result = await func(), the POST to the auth-api and its outcome.
AuthorityCall(p) ==
    /\ pc[p] = "call"
    /\ \E resp \in Responses :
         LET out == check_permission(resp)
         IN  /\ loc' = [loc EXCEPT ![p].resp = resp,
                                   ![p].allowed = out.value,
                                   ![p].exc = ExecuteError(out)]
             /\ faulted' = (faulted \/ resp \in FaultResponses)
             /\ IF out.kind = "return"
                THEN Goto(p, "record_success") /\ UNCHANGED result
                ELSE IF CountsAsFailure(out)
                THEN Goto(p, "record_failure") /\ UNCHANGED result
                ELSE Finished(p, Raise(out.status, out.detail))
    /\ Touch(p, "authority")
    /\ UNCHANGED <<cfg, now, redis, req, probing, run, Env>>

\* record_success: DEL failures. It runs inside the try of execute: if the
\* DEL raises, "except Exception" takes it for a failure of the call.
RecordSuccess(p) ==
    /\ pc[p] = "record_success"
    /\ IF ~cfg.CIRCUIT_BREAKER_ENABLED
       THEN Goto(p, "cache_set") /\ UNCHANGED <<redis, io, loc, probing, run>>
       ELSE IF store_down
       THEN /\ Goto(p, "record_failure")
            /\ loc' = [loc EXCEPT ![p].store_error = "cb_write",
                                  ![p].exc = "Authorization service error"]
            /\ UNCHANGED <<redis, io, probing, run>>
       ELSE /\ redis' = RedisDelete(redis, REDIS_KEY_FAILURES)
            /\ Touch(p, "cb_write")
            /\ probing' = FALSE
            /\ run' = 0
            /\ Goto(p, "cache_set")
            /\ UNCHANGED loc
    /\ UNCHANGED <<cfg, now, req, result, faulted, Env>>

\* record_failure: INCR failures, then open() if the threshold is reached;
\* otherwise execute re-raises.
RecordFailure(p) ==
    /\ pc[p] = "record_failure"
    /\ IF ~cfg.CIRCUIT_BREAKER_ENABLED
       THEN /\ Finished(p, Raise(503, loc[p].exc))
            /\ UNCHANGED <<redis, io, loc, probing, run>>
       ELSE IF store_down
       THEN /\ Finished(p, RedisError)
            /\ loc' = [loc EXCEPT ![p].store_error =
                           IF @ = "" THEN "cb_write" ELSE @]
            /\ UNCHANGED <<redis, io, probing, run>>
       ELSE /\ redis' = RedisIncr(redis, REDIS_KEY_FAILURES)
            /\ Touch(p, "cb_write")
            /\ probing' = FALSE
            /\ run' = run + 1
            /\ IF ThresholdReached(redis'[REDIS_KEY_FAILURES])
               THEN Goto(p, "open_state") /\ UNCHANGED result
               ELSE Finished(p, Raise(503, loc[p].exc))
            /\ UNCHANGED loc
    /\ UNCHANGED <<cfg, now, req, faulted, Env>>

\* open: SET state OPEN
OpenState(p) ==
    /\ pc[p] = "open_state"
    /\ IF store_down
       THEN Fails(p, "cb_write") /\ UNCHANGED redis
       ELSE /\ redis' = RedisSet(redis, REDIS_KEY_STATE, "OPEN")
            /\ Goto(p, "open_opened_at")
            /\ UNCHANGED <<loc, result>>
    /\ UNCHANGED <<cfg, now, req, io, History, Env>>

\* open: SET opened_at utcnow().isoformat(); execute then re-raises.
OpenOpenedAt(p) ==
    /\ pc[p] = "open_opened_at"
    /\ IF store_down
       THEN Fails(p, "cb_write") /\ UNCHANGED redis
       ELSE /\ redis' = RedisSet(redis, REDIS_KEY_OPENED_AT, isoformat(now))
            /\ Finished(p, Raise(503, loc[p].exc))
            /\ UNCHANGED loc
    /\ UNCHANGED <<cfg, now, req, io, History, Env>>

\* Mutant: cache.set writes whether or not the cache is enabled.
CacheSet_IgnoresSwitch(p) ==
    /\ pc[p] = "cache_set"
    /\ IF store_down
       THEN Fails(p, "cache_set") /\ UNCHANGED <<redis, io, written, was_set>>
       ELSE LET key == make_key(req[p].auth.org_id, req[p].auth.user_id,
                                loc[p].permission)
            IN  /\ redis' = RedisSetex(redis, key, CacheTtl(loc[p].allowed),
                                       CacheBytes(loc[p].allowed), now)
                /\ written' = Write(key, loc[p].allowed, now)
                /\ was_set' = was_set \cup
                       { Triple(req[p].auth.org_id, req[p].auth.user_id,
                                loc[p].permission) }
                /\ Touch(p, "cache_set")
                /\ Finished(p, Verdict(loc[p].allowed))
                /\ UNCHANGED loc
    /\ UNCHANGED <<cfg, now, req, History, store_down, Db>>

\* _check_group_permission: await self.cache.set(...), then the verdict.
CacheSet(p) ==
    /\ pc[p] = "cache_set"
    /\ IF ~cfg.AUTH_CACHE_ENABLED
       THEN /\ Finished(p, Verdict(loc[p].allowed))
            /\ UNCHANGED <<redis, io, loc, written, was_set>>
       ELSE IF store_down
       THEN Fails(p, "cache_set") /\ UNCHANGED <<redis, io, written, was_set>>
       ELSE LET key == make_key(req[p].auth.org_id, req[p].auth.user_id,
                                loc[p].permission)
            IN  /\ redis' = RedisSetex(redis, key, CacheTtl(loc[p].allowed),
                                       CacheBytes(loc[p].allowed), now)
                /\ written' = Write(key, loc[p].allowed, now)
                /\ was_set' = was_set \cup
                       { Triple(req[p].auth.org_id, req[p].auth.user_id,
                                loc[p].permission) }
                /\ Touch(p, "cache_set")
                /\ Finished(p, Verdict(loc[p].allowed))
                /\ UNCHANGED loc
    /\ UNCHANGED <<cfg, now, req, History, store_down, Db>>

\* The caller has its answer; the coroutine is gone.
Finish(p) ==
    /\ pc[p] = "done"
    /\ pc' = [pc EXCEPT ![p] = "idle"]
    /\ req' = [req EXCEPT ![p] = NoRequest]
    /\ loc' = [loc EXCEPT ![p] = NoLocals]
    /\ result' = [result EXCEPT ![p] = NoResult]
    /\ io' = [io EXCEPT ![p] = {}]
    /\ UNCHANGED <<cfg, now, redis, History, Env>>

\* Time passes; Redis drops the cache entries whose TTL has run out.
Tick ==
    /\ now + TickStep <= MaxTime
    /\ now' = now + TickStep
    /\ redis' = [k \in {x \in DOMAIN redis :
                          x \in {REDIS_KEY_STATE, REDIS_KEY_FAILURES, REDIS_KEY_OPENED_AT}
                          \/ redis[x].exp > now + TickStep} |-> redis[k]]
    /\ UNCHANGED <<cfg, pc, req, loc, result, io, History, Env>>

\* Time passes with no horizon: the clock is held and every time in the
\* store moves back instead. The code compares only differences
\* (utcnow() - opened_time, a key's remaining TTL); an opened_at older than
\* the timeout by a tick or more is held where it is.
Rebase(r) ==
    LET keep == {x \in DOMAIN r :
                    x \in {REDIS_KEY_STATE, REDIS_KEY_FAILURES, REDIS_KEY_OPENED_AT}
                    \/ r[x].exp - TickStep > now}
        floor == now - CIRCUIT_BREAKER_TIMEOUT - TickStep
    IN  [k \in keep |->
            IF k = REDIS_KEY_OPENED_AT
            THEN isoformat(IF fromisoformat(r[k]) - TickStep < floor
                           THEN floor ELSE fromisoformat(r[k]) - TickStep)
            ELSE IF k \in {REDIS_KEY_STATE, REDIS_KEY_FAILURES}
            THEN r[k]
            ELSE [r[k] EXCEPT !.exp = @ - TickStep]]

\* The oldest write worth remembering: no TTL reaches as far.
Horizon == now - AUTH_CACHE_TTL_DENIED

TickLate ==
    /\ redis' = Rebase(redis)
    /\ written' = IF written.key = NULL \/ written.at - TickStep < Horizon
                  THEN NoWrite
                  ELSE [written EXCEPT !.at = @ - TickStep]
    /\ UNCHANGED <<cfg, now, pc, req, loc, result, io, History, store_down, was_set, Db>>

\* The store becomes unreachable, and reachable again: while it is down,
\* every command of the client raises redis.RedisError.
StoreGoesDown ==
    /\ ~store_down
    /\ store_down' = TRUE
    /\ UNCHANGED <<cfg, now, redis, pc, req, loc, result, io, History, written,
                   was_set, Db>>

StoreComesBack ==
    /\ store_down
    /\ store_down' = FALSE
    /\ UNCHANGED <<cfg, now, redis, pc, req, loc, result, io, History, written,
                   was_set, Db>>

Step(p) ==
    \/ CacheGet(p)
    \/ CbGetState(p)
    \/ CbGetOpenedAt(p)
    \/ ResetState(p)
    \/ ResetFailures(p)
    \/ ResetOpenedAt(p)
    \/ AuthorityCall(p)
    \/ RecordSuccess(p)
    \/ RecordFailure(p)
    \/ OpenState(p)
    \/ OpenOpenedAt(p)
    \/ CacheSet(p)
    \/ Finish(p)

\* Concurrent calls.
Next ==
    \/ Tick
    \/ \E p \in Procs : Start(p, ConcRequests)
    \/ \E p \in Procs : Step(p)

Spec == Init /\ [][Next]_vars

\* One call at a time, over every kind of bucket and identity.
NextSeq ==
    \/ Tick
    \/ Start("p1", SeqRequests)
    \/ Step("p1")

SpecSeq == InitSeq /\ [][NextSeq]_vars

\* One identity, one base permission, two groups, one call at a time.
GroupRequests ==
    { Request(Identity("u1", "abc"), "image:upload", b) :
        b \in {"org-abc/groups/xyz/", "org-abc/groups/g2"} }

NextGroups ==
    \/ Tick
    \/ Start("p1", GroupRequests)
    \/ Step("p1")

SpecGroups == Init /\ [][NextGroups]_vars

\* GET /health/auth: circuit_breaker.get_state() and get_failure_count() are
\* not methods of CircuitBreaker; the AttributeError is caught by the
\* endpoint's "except Exception" and the values it started with are
\* reported.  No command reaches the store.  result["p2"] keeps the
\* "circuit_breaker" part of the response.
HealthSnapshot(state, failures) == [cb_state |-> state, cb_failure_count |-> failures]

authorization_health_check ==
    /\ result' = [result EXCEPT !["p2"] = HealthSnapshot("unknown", 0)]
    /\ UNCHANGED <<cfg, now, redis, pc, req, loc, io, History, Env>>

\* One call at a time, and the health endpoint at any moment.
NextHealth ==
    \/ Tick
    \/ Start("p1", ConcRequests)
    \/ Step("p1")
    \/ authorization_health_check

SpecHealth == Init /\ [][NextHealth]_vars

\* DELETE /{image_id}: the handler reads the job's bucket and awaits
\* require_bucket_read_access(request, bucket), which hands check_access the
\* caller's identity, the bucket and the literal permission "image:read".
READ_PERMISSION == "image:read"

DeleteRequests ==
    { Request(Identity("u1", "abc"), READ_PERMISSION, b) :
        b \in {"org-abc/groups/xyz/", "org-abc/groups/g2"} }

require_bucket_read_access(p) == Start(p, DeleteRequests)

\* A step of the check_access the handler is awaiting.
Awaited(p) == pc[p] # "done" /\ Step(p)

\* What delete_image returns once the files are removed.
Deleted == [raised |-> FALSE, status |-> 200, detail |-> "deleted"]

\* delete_image after the await: an HTTPException of check_access leaves the
\* handler as it is; otherwise the variants and the staging file are removed
\* and {"deleted": True} is returned.  The slot "p2" keeps the handler's
\* outcome with the bucket and the permission check_access was asked for.
delete_image ==
    /\ pc["p1"] = "done"
    /\ result' = [result EXCEPT !["p1"] = NoResult,
                                !["p2"] = IF result["p1"].raised
                                          THEN result["p1"] ELSE Deleted]
    /\ req' = [req EXCEPT !["p1"] = NoRequest, !["p2"] = req["p1"]]
    /\ loc' = [loc EXCEPT !["p1"] = NoLocals,
                          !["p2"] = [NoLocals EXCEPT !.permission = loc["p1"].permission]]
    /\ pc' = [pc EXCEPT !["p1"] = "idle"]
    /\ io' = [io EXCEPT !["p1"] = {}]
    /\ UNCHANGED <<cfg, now, redis, History, Env>>

NextDelete ==
    \/ Tick
    \/ require_bucket_read_access("p1")
    \/ Awaited("p1")
    \/ delete_image

SpecDelete == Init /\ [][NextDelete]_vars

(***************************************************************************)
(* ProcessorDB.check_rate_limit                                            *)
(***************************************************************************)
\* max_uploads, the limit the callers pass (settings.RATE_LIMIT_MAX_UPLOADS).
MaxUploads == 2

\* The clock of the rate limiter runs to the start of the next hour.
MaxHours == 1

SecondsPerHour == 3600

RateUsers == {"u1", "u2"}

\* datetime.utcnow().replace(minute=0, second=0, microsecond=0).isoformat()
window_start(t) == isoformat((t \div SecondsPerHour) * SecondsPerHour)

\* SELECT upload_count ... ; current_count = row[0] if row else 0
current_count(table, key) == IF key \in DOMAIN table THEN table[key] ELSE 0

\* INSERT ... VALUES (?, ?, 1) ON CONFLICT(user_id, window_start)
\* DO UPDATE SET upload_count = upload_count + 1
Upsert(table, key) ==
    [k \in DOMAIN table \cup {key} |->
        IF k = key THEN current_count(table, key) + 1 ELSE table[k]]

RateLimit(allowed, remaining, reset_at) ==
    [allowed |-> allowed, remaining |-> remaining, reset_at |-> reset_at]

RateKey(p) == <<req[p].auth.user_id, loc[p].window_start>>

\* check_rate_limit up to its first await: window_start is computed once.
check_rate_limit(p) ==
    /\ pc[p] = "idle"
    /\ \E u \in RateUsers :
         req' = [req EXCEPT ![p] = Request(Identity(u, NULL), NULL, NULL)]
    /\ loc' = [loc EXCEPT ![p] = [NoLocals EXCEPT !.window_start = window_start(now)]]
    /\ result' = [result EXCEPT ![p] = NoResult]
    /\ io' = [io EXCEPT ![p] = {}]
    /\ Goto(p, "rl_select")
    /\ UNCHANGED <<cfg, now, redis, History, Env>>

\* The SELECT and the comparison with max_uploads; at or over the limit the
\* call returns allowed=False, remaining=0.
RateSelect(p) ==
    /\ pc[p] = "rl_select"
    /\ LET count == current_count(upload_rate_limits, RateKey(p))
       IN  /\ loc' = [loc EXCEPT ![p].current_count = count]
           /\ IF count >= MaxUploads
              THEN Finished(p, RateLimit(FALSE, 0, loc[p].window_start))
              ELSE Goto(p, "rl_insert") /\ UNCHANGED result
    /\ UNCHANGED <<cfg, now, redis, req, io, History, Env>>

\* The upsert and its commit; the call returns allowed=True with the
\* remaining count computed from what its SELECT read.
RateInsert(p) ==
    /\ pc[p] = "rl_insert"
    /\ upload_rate_limits' = Upsert(upload_rate_limits, RateKey(p))
    /\ allowed_calls' = Upsert(allowed_calls, RateKey(p))
    /\ Finished(p, RateLimit(TRUE, MaxUploads - loc[p].current_count - 1,
                             loc[p].window_start))
    /\ UNCHANGED <<cfg, now, redis, req, loc, io, History, written, store_down,
                   was_set>>

\* The next hour begins.
HourPasses ==
    /\ now + SecondsPerHour <= MaxHours * SecondsPerHour
    /\ now' = now + SecondsPerHour
    /\ UNCHANGED <<cfg, redis, pc, req, loc, result, io, History, Env>>

\* Uploads of any user at any moment, their rate-limit checks interleaved at
\* the awaits.
NextRate ==
    \/ HourPasses
    \/ \E p \in Procs : check_rate_limit(p)
    \/ \E p \in Procs : RateSelect(p)
    \/ \E p \in Procs : RateInsert(p)
    \/ \E p \in Procs : Finish(p)

SpecRate == Init /\ [][NextRate]_vars

\* AuthorizationCache.set, called on its own; the answer of an earlier get
\* is dropped.
AuthorizationCache_set(t, allowed) ==
    /\ IF cfg.AUTH_CACHE_ENABLED
       THEN LET key == make_key(t.org_id, t.user_id, t.permission)
            IN  /\ redis' = RedisSetex(redis, key, CacheTtl(allowed),
                                       CacheBytes(allowed), now)
                /\ written' = Write(key, allowed, now)
                /\ was_set' = was_set \cup {t}
       ELSE UNCHANGED <<redis, written, was_set>>
    /\ loc' = [loc EXCEPT !["p1"] = NoLocals]
    /\ req' = [req EXCEPT !["p1"] = NoRequest]
    /\ io' = [io EXCEPT !["p1"] = {}]
    /\ UNCHANGED <<cfg, now, pc, result, History, store_down, Db>>

\* AuthorizationCache.get, called on its own: req["p1"] keeps its arguments,
\* loc["p1"] the key and the bytes it read, None for a miss and when the
\* cache is off.
AuthorizationCache_get(t) ==
    /\ LET key == make_key(t.org_id, t.user_id, t.permission)
           value == IF cfg.AUTH_CACHE_ENABLED THEN CacheValue(redis, key) ELSE NULL
       IN  loc' = [loc EXCEPT !["p1"] = [NoLocals EXCEPT !.key = key,
                                                         !.cached = value,
                                                         !.read_at = now]]
    /\ req' = [req EXCEPT !["p1"] =
                   Request(Identity(t.user_id, t.org_id), t.permission, NULL)]
    /\ io' = [io EXCEPT !["p1"] = {}]
    /\ UNCHANGED <<cfg, now, redis, pc, result, History, Env>>

\* AuthorizationCache.invalidate, the one operation of the cache that deletes,
\* called on its own: one DEL of the key of its three arguments, nothing
\* returned.  io["p1"] marks the call, req["p1"] keeps its arguments; the
\* last entry written is forgotten if it is the one deleted.
AuthorizationCache_invalidate(t) ==
    /\ LET key == make_key(t.org_id, t.user_id, t.permission)
       IN  IF cfg.AUTH_CACHE_ENABLED
           THEN /\ redis' = RedisDelete(redis, key)
                /\ written' = IF written.key = key THEN NoWrite ELSE written
           ELSE UNCHANGED <<redis, written>>
    /\ loc' = [loc EXCEPT !["p1"] = NoLocals]
    /\ req' = [req EXCEPT !["p1"] =
                   Request(Identity(t.user_id, t.org_id), t.permission, NULL)]
    /\ io' = [io EXCEPT !["p1"] = {"cache_invalidate"}]
    /\ UNCHANGED <<cfg, now, pc, result, History, store_down, was_set, Db>>

\* The cache on its own: set and get of any triple, in any order, over time.
NextCache ==
    \/ Tick
    \/ \E t \in CacheTriples, allowed \in BOOLEAN : AuthorizationCache_set(t, allowed)
    \/ \E t \in CacheTriples : AuthorizationCache_get(t)
    \/ \E t \in CacheTriples : AuthorizationCache_invalidate(t)

SpecCache == InitCache /\ [][NextCache]_vars

\* BucketValidator.parse, called on its own: req["p1"] keeps the string it was
\* given, result["p1"] the BucketInfo it returned or the HTTPException it
\* raised.
BucketValidator_parse(bucket) ==
    /\ req' = [req EXCEPT !["p1"] = Request(Identity(NULL, NULL), NULL, bucket)]
    /\ result' = [result EXCEPT !["p1"] = parse(bucket, cfg.BUCKET_VALIDATION_STRICT)]
    /\ UNCHANGED <<cfg, now, redis, pc, loc, io, History, Env>>

NextParse == \E bucket \in ParseInputs : BucketValidator_parse(bucket)

SpecParse == InitParse /\ [][NextParse]_vars

\* One call at a time against a store that comes and goes.
NextIO ==
    \/ Tick
    \/ StoreGoesDown
    \/ StoreComesBack
    \/ Start("p1", ConcRequests)
    \/ Step("p1")

SpecIO == Init /\ [][NextIO]_vars

\* Concurrent calls for ever: time never stops, every call that has started
\* runs to its end (the event loop resumes every coroutine whose await has
\* completed), callers keep calling, and the auth-api, reached again and
\* again, answers 200 or 403 again and again.
NextLive ==
    \/ TickLate
    \/ \E p \in Procs : Start(p, ConcRequests)
    \/ \E p \in Procs : Step(p)

\* One caller: a check_access from its call to its return, then the next.
Proc(p) == Start(p, ConcRequests) \/ Step(p)

HealthyAnswer == \E p \in Procs : AuthorityCall(p) /\ loc'[p].resp \in OkResponses

\* Proc(p) can take a step in every state, so WF_vars(Proc(p)) is
\* []<><<Proc(p)>>_vars; HealthyAnswer can happen exactly when some call
\* stands at the auth-api, so SF_vars(HealthyAnswer) is the last conjunct.
Fairness ==
    /\ WF_vars(TickLate)
    /\ \A p \in Procs : []<><<Proc(p)>>_vars
    /\ \/ <>[](\A p \in Procs : pc[p] # "call")
       \/ []<><<HealthyAnswer>>_vars

SpecLive == Init /\ [][NextLive]_vars /\ Fairness

(***************************************************************************)
(* Properties                                                              *)
(***************************************************************************)
\* The group bucket of a request that passed the org check.
OnGroupPath(p) == loc[p].key /= NULL

\* C1: a check_access whose identity and parsed bucket both carry an org_id,
\* and the two differ, is denied with "Organization ID mismatch" for every
\* kind of bucket, having touched neither the cache, nor the breaker, nor
\* the auth-api.
C1_OrgMismatchDeniedFirst ==
    \A p \in Procs :
        LET parsed == parse(req[p].bucket, cfg.BUCKET_VALIDATION_STRICT)
        IN  ( /\ pc[p] = "done"
              /\ ~parsed.raised
              /\ req[p].auth.org_id /= NULL
              /\ parsed.info.org_id /= NULL
              /\ parsed.info.org_id /= req[p].auth.org_id )
            => /\ result[p] = Raise(403, "Organization ID mismatch")
               /\ io[p] = {}

\* C1 witness: a mismatching call on a group bucket is denied while the cache
\* holds a grant under the key the call would have read and the breaker is
\* open.
C1_Witness ==
    /\ pc["p1"] = "done"
    /\ req["p1"] = Request(Identity("u2", "zzz"), "image:upload", "org-abc/groups/xyz/")
    /\ result["p1"] = Raise(403, "Organization ID mismatch")
    /\ CacheValue(redis, "auth:permission:zzz:u2:image:upload:group:xyz") = "1"
    /\ StateIsOpen(redis)

\* C2: fail-open not configured, a group-bucket check is granted only if the
\* cache held "1" under the key of exactly its (org, user, scoped
\* permission) or the auth-api answered allowed (200 with the allowed
\* indicator true) in this call; a blocked breaker or a failed auth-api call
\* never yields a grant.
C2_GrantOnlyFromCacheOrAuthority ==
    \A p \in Procs :
        ( pc[p] = "done" /\ OnGroupPath(p) /\ ~cfg.AUTH_FAIL_OPEN )
        => /\ result[p] = Granted
              => \/ /\ loc[p].cached = "1"
                    /\ loc[p].key = "auth:permission:" \o Str(req[p].auth.org_id)
                                       \o ":" \o Str(req[p].auth.user_id)
                                       \o ":" \o req[p].permission \o ":group:"
                                       \o parse(req[p].bucket, TRUE).info.resource_id
                 \/ loc[p].resp = "200"
           /\ (loc[p].blocked \/ loc[p].resp \in FaultResponses)
              => result[p] /= Granted

\* C2 witness: one call granted from the cache while another, which missed
\* the cache, is refused by the open breaker.
C2_Witness ==
    \E p, q \in Procs :
        /\ pc[p] = "done" /\ loc[p].cached = "1" /\ result[p] = Granted
        /\ pc[q] = "done" /\ loc[q].blocked /\ result[q].status = 503
        /\ ~cfg.AUTH_FAIL_OPEN

\* C3: with fail-open configured, every outcome that would be Unavailable
\* (breaker blocks, or the auth-api call fails) is replaced by Granted.
C3_FailOpenGrants ==
    \A p \in Procs :
        ( /\ pc[p] = "done"
          /\ cfg.AUTH_FAIL_OPEN
          /\ (loc[p].blocked \/ loc[p].resp \in FaultResponses) )
        => result[p] = Granted

\* C4: as long as every auth-api call has answered 200 or 403, the failure
\* counter is 0 and the breaker is closed, however many denials there were.
C4_DenialsNeverTrip ==
    (cfg.CIRCUIT_BREAKER_ENABLED /\ ~faulted)
    => Failures(redis) = 0 /\ Phase(redis) = "closed"

\* C4 witness: two calls denied by the auth-api, no fault so far.
C4_Witness ==
    /\ ~faulted
    /\ \A p \in Procs : pc[p] = "done" /\ loc[p].resp = "403"
                        /\ result[p] = Raise(403, "Permission denied")
    /\ "cb_write" \in io["p1"] /\ "cb_write" \in io["p2"]

\* The breaker is between two commands of reset() or of open().
MidTransition(p) ==
    pc[p] \in {"reset_state", "reset_failures", "reset_opened_at",
               "open_state", "open_opened_at"}

\* C5: one caller at a time, starting closed with counter 0: the counter
\* equals the number of record_failure calls since the last record_success
\* (a success puts it back to 0); below the threshold the breaker is closed,
\* and once the threshold-th consecutive failure is recorded it is open with
\* opened_at set.
C5_TripsAtThreshold ==
    (cfg.CIRCUIT_BREAKER_ENABLED /\ ~MidTransition("p1"))
    => /\ Failures(redis) = run
       /\ run < CIRCUIT_BREAKER_THRESHOLD => Phase(redis) = "closed"
       /\ run >= CIRCUIT_BREAKER_THRESHOLD
          => Phase(redis) = "open" /\ Exists(redis, REDIS_KEY_OPENED_AT)

\* C5 witness: the call that recorded the threshold-th consecutive failure
\* has returned and the breaker is open.
C5_Witness ==
    /\ pc["p1"] = "done"
    /\ loc["p1"].resp \in FaultResponses
    /\ ~loc["p1"].pre_tripped
    /\ run = CIRCUIT_BREAKER_THRESHOLD
    /\ Phase(redis) = "open"

\* The cooldown that began at opened_at has not run out.
CooldownRunning ==
    /\ Exists(redis, REDIS_KEY_OPENED_AT)
    /\ now - fromisoformat(redis[REDIS_KEY_OPENED_AT]) <= CIRCUIT_BREAKER_TIMEOUT

\* C6: after threshold consecutive auth-api failures, a group-bucket check
\* that misses the cache while the cooldown is running ends in 503 and has
\* made no call to the auth-api.
C6_OpenBreakerBlocks ==
    \A p \in Procs :
        ( /\ pc[p] = "done"
          /\ cfg.CIRCUIT_BREAKER_ENABLED
          /\ loc[p].pre_tripped
          /\ OnGroupPath(p) /\ loc[p].cached = NULL
          /\ CooldownRunning )
        => /\ result[p].raised /\ result[p].status = 503
           /\ "authority" \notin io[p]

\* C6 witness: such a call, refused.
C6_Witness ==
    /\ pc["p1"] = "done"
    /\ loc["p1"].pre_tripped /\ loc["p1"].blocked
    /\ loc["p1"].cached = NULL
    /\ CooldownRunning
    /\ result["p1"] = Raise(503, "Authorization service temporarily unavailable")

\* C7: until the timeout has elapsed since opened_at an open breaker refuses
\* the attempt; the first is_open after that lets the call pass and leaves
\* the persisted phase half_open, the failure counter unchanged.
C7_TimeoutLeavesHalfOpen ==
    \A p \in Procs :
        /\ (pc[p] = "done" /\ loc[p].blocked) => Phase(redis) = "open"
        /\ (pc[p] = "call" /\ loc[p].did_reset)
           => /\ Phase(redis) = "half_open"
              /\ Failures(redis) = loc[p].pre_failures

\* C8: the trial call permitted after the cooldown fails once: right after
\* its record_failure the breaker is open again, opened_at stamped anew.
C8_TrialFailureReopens ==
    \A p \in Procs :
        ( pc[p] = "done" /\ loc[p].did_reset /\ loc[p].resp \in FaultResponses )
        => /\ Phase(redis) = "open"
           /\ Exists(redis, REDIS_KEY_OPENED_AT)

\* C9: record_success, from whatever phase, leaves the breaker closed with
\* the failure counter at 0.
C9_SuccessCloses ==
    [][ \A p \in Procs :
          ( /\ cfg.CIRCUIT_BREAKER_ENABLED
            /\ pc[p] = "record_success"
            /\ pc'[p] = "cache_set" )
          => /\ Phase(redis') = "closed"
             /\ Failures(redis') = 0 ]_vars

\* C10: of the calls is_open lets pass once the cooldown has elapsed, at
\* most one is in flight to the auth-api until an outcome is recorded.
C10_OneTrialInFlight ==
    Cardinality({p \in Procs : pc[p] = "call" /\ loc[p].trial}) <= 1

\* No call stands between two commands of reset() or of open().
Settled == \A p \in Procs : ~MidTransition(p)

\* C11: under any interleaving of the breaker operations of concurrent
\* callers, whenever no open() or reset() is half done, a persisted phase of
\* open comes with opened_at set.
C11_OpenHasOpenedAt ==
    Settled => (Phase(redis) = "open" => Exists(redis, REDIS_KEY_OPENED_AT))

C13_BreakerRecovers == (Phase(redis) = "open") ~> (Phase(redis) = "closed")

\* C14: a failed read or write of the breaker keys raises nothing and counts
\* as "closed": the call still reaches the auth-api, and a 200 or 403 from it
\* is what check_access returns.
C14_BreakerStoreFailureMeansClosed ==
    \A p \in Procs :
        ( pc[p] = "done" /\ loc[p].store_error \in {"cb_read", "cb_write"} )
        => /\ result[p] # RedisError
           /\ "authority" \in io[p]
           /\ loc[p].resp \in OkResponses => result[p] = Verdict(loc[p].resp = "200")

\* C15: a failed GET of the cache key is a miss: cache.get raises nothing and
\* check_access goes on to the breaker and the auth-api.
C15_CacheGetFailureIsMiss ==
    \A p \in Procs :
        ( pc[p] = "done" /\ loc[p].store_error = "cache_get" )
        => /\ result[p] # RedisError
           /\ "cb_read" \in io[p]

\* C16: a failed SETEX after a 200 or 403 from the auth-api is swallowed:
\* check_access returns the decision the auth-api gave.
C16_CacheSetFailureSwallowed ==
    \A p \in Procs :
        ( pc[p] = "done" /\ loc[p].store_error = "cache_set" )
        => /\ loc[p].resp \in OkResponses
           /\ result[p] = Verdict(loc[p].resp = "200")

\* The cache key of the (org, user, scoped permission) of call p.
KeyOf(p) ==
    "auth:permission:" \o Str(req[p].auth.org_id) \o ":" \o Str(req[p].auth.user_id)
        \o ":" \o req[p].permission \o ":group:"
        \o parse(req[p].bucket, cfg.BUCKET_VALIDATION_STRICT).info.resource_id

\* C17: on the group path, a call that finds an unexpired entry under the key
\* of its (org, user, scoped permission) returns that entry's decision, "1"
\* a grant and anything else a denial, and has touched nothing but the
\* cache: no read or write of the breaker keys, no call to the auth-api,
\* whatever the phase of the breaker.
C17_CacheHitTouchesNothingElse ==
    \A p \in Procs :
        ( pc[p] = "done" /\ OnGroupPath(p) /\ loc[p].cached # NULL )
        => /\ loc[p].key = KeyOf(p)
           /\ result[p] = IF loc[p].cached = "1" THEN Granted
                          ELSE Raise(403, "Permission denied (cached)")
           /\ io[p] = {"cache_get"}

\* C17 witness: a call served from the cache while the breaker is open and
\* its cooldown running.
C17_Witness ==
    \E p \in Procs :
        /\ pc[p] = "done" /\ loc[p].cached = "1" /\ result[p] = Granted
        /\ io[p] = {"cache_get"}
        /\ Phase(redis) = "open" /\ CooldownRunning

\* The last cache write is still within the TTL its decision is kept for.
WrittenLive ==
    /\ written.key # NULL
    /\ now < written.at + (IF written.allowed THEN AUTH_CACHE_TTL_ALLOWED
                           ELSE AUTH_CACHE_TTL_DENIED)

\* C18: one call at a time, cache enabled: once a group check has got a 200
\* or a 403 from the auth-api, a later check of the same (org, user, scoped
\* permission) that ends within the TTL of that decision (60 s for a grant,
\* 120 s for a denial) ends with the same decision and calls the auth-api
\* not at all.
C18_DecisionServedFromCache ==
    \A p \in Procs :
        ( /\ pc[p] = "done" /\ OnGroupPath(p)
          /\ cfg.AUTH_CACHE_ENABLED
          /\ "cache_set" \notin io[p]
          /\ loc[p].key = written.key
          /\ WrittenLive )
        => /\ result[p] = IF written.allowed THEN Granted
                          ELSE Raise(403, "Permission denied (cached)")
           /\ "authority" \notin io[p]

\* C18 witness: a denial obtained from the auth-api at time 0 answers a later
\* check a minute on.
C18_Witness ==
    /\ pc["p1"] = "done"
    /\ loc["p1"].key = written.key
    /\ "cache_set" \notin io["p1"]
    /\ written = Write(KeyOf("p1"), FALSE, 0)
    /\ now = TickStep
    /\ result["p1"] = Raise(403, "Permission denied (cached)")

\* C19: one call at a time: a group check refused by the breaker, or whose
\* auth-api call failed, timed out or came back with an error status, ends in
\* 503 having written nothing to the cache: the key it read and found empty
\* is still empty.
C19_UnavailableIsNotCached ==
    \A p \in Procs :
        ( /\ pc[p] = "done" /\ OnGroupPath(p)
          /\ \/ loc[p].blocked
             \/ loc[p].resp \in FaultResponses
             \/ result[p].status = 503 )
        => /\ result[p].raised /\ result[p].status = 503
           /\ "cache_set" \notin io[p]
           /\ CacheValue(redis, loc[p].key) = NULL

\* C19 witness: the auth-api answered with an error status at a time when
\* the cache is on; the call ended in 503 and its key is empty.
C19_Witness ==
    /\ pc["p1"] = "done"
    /\ cfg.AUTH_CACHE_ENABLED
    /\ loc["p1"].resp = "500"
    /\ result["p1"] = Raise(503, "Authorization service unavailable")
    /\ loc["p1"].key = KeyOf("p1")
    /\ CacheValue(redis, loc["p1"].key) = NULL

\* C20: cache enabled, for every (org, user, permission) and both decisions:
\* a get of the key last set returns the decision written as long as the TTL
\* of that decision (60 s for a grant, 120 s for a denial) has not run out
\* since the set, and None once it has.
C20_SetThenGet ==
    ( /\ cfg.AUTH_CACHE_ENABLED
      /\ loc["p1"].key # NULL
      /\ loc["p1"].key = written.key )
    => LET ttl == IF written.allowed THEN AUTH_CACHE_TTL_ALLOWED
                  ELSE AUTH_CACHE_TTL_DENIED
       IN  IF loc["p1"].read_at < written.at + ttl
           THEN /\ loc["p1"].cached # NULL
                /\ (loc["p1"].cached = "1") = written.allowed
           ELSE loc["p1"].cached = NULL

\* C20 witness: a denial set at time 0 for a user without organisation was
\* read back a minute later, and is gone after two.
C20_Witness ==
    /\ cfg.AUTH_CACHE_ENABLED
    /\ written = Write("auth:permission:None:u1:image:read", FALSE, 0)
    /\ loc["p1"].key = written.key
    /\ loc["p1"].read_at = AUTH_CACHE_TTL_DENIED
    /\ loc["p1"].cached = NULL

\* What the last AuthorizationCache.get was asked for.
Asked == Triple(req["p1"].auth.org_id, req["p1"].auth.user_id, req["p1"].permission)

\* C21: cache isolation: a get(org, user, permission) returns a value only if
\* a set was made for exactly that (org, user, permission); a decision written
\* for one triple is never seen through a get whose org, user or permission
\* differs from it.
C21_CacheIsolation ==
    ( /\ loc["p1"].key # NULL
      /\ loc["p1"].cached # NULL )
    => Asked \in was_set

\* C22: the cache key is injective over string triples: the keys cache.set
\* built for two (org, user, permission) of strings, ids and permissions with
\* ':' in them included, are equal if and only if the two triples are equal
\* in all three components.
C22_KeyInjective ==
    \A a, b \in was_set :
        ( a.org_id # NULL /\ b.org_id # NULL )
        => ( ( make_key(a.org_id, a.user_id, a.permission)
               = make_key(b.org_id, b.user_id, b.permission) )
             <=> a = b )

\* The segment of a permission after its last ':'.
RECURSIVE LastColon(_, _)
LastColon(s, i) == IF i = 0 \/ CharAt(s, i) = ":" THEN i ELSE LastColon(s, i - 1)

TrailingSegment(permission) ==
    SubSeq(permission, LastColon(permission, Len(permission)) + 1, Len(permission))

\* The three classes of granted permissions, by sensitivity: the read TTL is
\* the longest (3), the write TTL the medium one (2), the admin TTL the
\* shortest (1).
TtlClass(permission) ==
    IF TrailingSegment(permission) \in {"read", "list", "view", "get"} THEN 3
    ELSE IF TrailingSegment(permission) \in {"admin", "delete", "purge"} THEN 1
    ELSE 2

\* C23: a set without explicit TTL stores a denial with the denied TTL
\* whatever the permission, and a grant with the TTL of the class of its
\* permission: the read TTL if the segment after the last ':' is read, list,
\* view or get, the admin TTL if it is admin, delete or purge, the write TTL
\* otherwise; so of two grants stored at the same moment the one of the less
\* sensitive class expires later.
C23_TtlByPermission ==
    ( cfg.AUTH_CACHE_ENABLED /\ now = 0 )
    => \A a, b \in was_set :
         LET ka == make_key(a.org_id, a.user_id, a.permission)
             kb == make_key(b.org_id, b.user_id, b.permission)
         IN  /\ CacheValue(redis, ka) = "0" => redis[ka].exp = AUTH_CACHE_TTL_DENIED
             /\ ( /\ CacheValue(redis, ka) = "1"
                  /\ CacheValue(redis, kb) = "1"
                  /\ ka # kb
                  /\ TtlClass(a.permission) > TtlClass(b.permission) )
                => redis[ka].exp > redis[kb].exp

\* C24: after the invalidation of a user in an organisation, a get returns
\* None for every permission that had been cached for that user in that
\* organisation: no entry of that user is left in the store.  (The count of
\* removed entries has no counterpart: invalidate returns nothing.)
C24_InvalidateUser ==
    ( cfg.AUTH_CACHE_ENABLED /\ io["p1"] = {"cache_invalidate"} )
    => \A t \in was_set :
            ( t.org_id = req["p1"].auth.org_id /\ t.user_id = req["p1"].auth.user_id )
            => CacheValue(redis, make_key(t.org_id, t.user_id, t.permission)) = NULL

\* C28: when the auth-api answers 200 with the allowed indicator false,
\* check_permission returns False (denied); it returns True (granted) for a
\* 200 only if the allowed indicator is true.
C28_AllowedIndicatorDecides ==
    \A p \in Procs :
        ( "authority" \in io[p] /\ loc[p].resp \in Status200 )
        => ( loc[p].allowed <=> loc[p].resp = "200" )

AuthorityFaults == {"500", "timeout", "request_error"}

Descriptor(kind, org, res, raw) ==
    [raised |-> FALSE, status |-> 200, detail |-> "",
     info |-> [bucket_type |-> kind, org_id |-> org, resource_id |-> res,
               original_bucket |-> raw]]

C30_ParseUnrecognized ==
    LET b == req["p1"].bucket
        r == result["p1"]
    IN  ( b # NULL /\ b \notin ShapeInputs )
        => IF cfg.BUCKET_VALIDATION_STRICT
           THEN r.raised /\ r.status = 400
           ELSE r = Descriptor("system", "default-org", NULL, b)

\* The group a bucket of GroupRequests names.
GroupOf(bucket) == IF bucket = "org-abc/groups/xyz/" THEN "xyz" ELSE "g2"

\* C31: for one identity and one base permission, a check_access for group g
\* reads the cache under, and asks the auth-api for, the scoped permission
\* "{permission}:group:g", and is granted only on a "1" that a cache.set for
\* exactly that scoped permission wrote or on its own 200: a grant for
\* another group never answers it.
C31_GroupsIndependent ==
    \A p \in Procs :
        ( pc[p] = "done" /\ OnGroupPath(p) )
        => LET scoped == req[p].permission \o ":group:" \o GroupOf(req[p].bucket)
           IN  /\ loc[p].permission = scoped
               /\ loc[p].key = "auth:permission:abc:u1:" \o scoped
               /\ loc[p].cached # NULL => Triple("abc", "u1", scoped) \in was_set
               /\ result[p] = Granted
                  => \/ loc[p].cached = "1"
                     \/ loc[p].resp \in Status200

\* C31 witness: the cache holds a live grant for group xyz; the check for
\* group g2 missed the cache, asked the auth-api and was denied.
C31_Witness ==
    /\ pc["p1"] = "done"
    /\ req["p1"].bucket = "org-abc/groups/g2"
    /\ CacheValue(redis, "auth:permission:abc:u1:image:upload:group:xyz") = "1"
    /\ loc["p1"].cached = NULL
    /\ loc["p1"].resp = "403"
    /\ result["p1"] = Raise(403, "Permission denied")

\* C32: the health snapshot of the breaker reports the phase and the failure
\* counter the store holds (and opened_at with them) and changes nothing: in
\* every state, open with the cooldown run out included, phase, counter and
\* opened_at are after the snapshot what they were before.
C32_HealthSnapshot ==
    [][ result'["p2"] # result["p2"]
        => /\ result'["p2"].cb_state = Phase(redis)
           /\ result'["p2"].cb_failure_count = Failures(redis)
           /\ redis' = redis ]_vars

\* C33: with the cache disabled nothing is ever written to the cache, no
\* group check reads it, and every group check the breaker lets through
\* calls the auth-api, however many identical checks came before.
C33_CacheDisabled ==
    ~cfg.AUTH_CACHE_ENABLED
    => /\ was_set = {}
       /\ DOMAIN redis \subseteq {REDIS_KEY_STATE, REDIS_KEY_FAILURES, REDIS_KEY_OPENED_AT}
       /\ \A p \in Procs :
            ( pc[p] = "done" /\ OnGroupPath(p) )
            => /\ loc[p].cached = NULL
               /\ "cache_get" \notin io[p]
               /\ "cache_set" \notin io[p]
               /\ ~loc[p].blocked => ( "authority" \in io[p] /\ loc[p].resp # NULL )

\* C33 witness: cache disabled; the third of three identical checks in a row
\* has reached the auth-api and failed there like the two before it.
C33_Witness ==
    /\ ~cfg.AUTH_CACHE_ENABLED
    /\ pc["p1"] = "done"
    /\ run = 3
    /\ Failures(redis) = 3
    /\ loc["p1"].resp = "500"
    /\ "authority" \in io["p1"]
    /\ result["p1"] = Raise(503, "Authorization service unavailable")
    /\ DOMAIN redis = {REDIS_KEY_FAILURES}

\* A call that ended in a denial, and one that found the authority
\* unavailable.
WasDenied(p) == pc[p] = "done" /\ (loc[p].cached = "0" \/ loc[p].resp = "403")
WasUnavailable(p) == pc[p] = "done" /\ (loc[p].blocked \/ loc[p].resp \in FaultResponses)

\* C34: a denial and an unavailable authority never look the same to the
\* caller: the two calls end in different status codes (403 and 503), and
\* the batch retrieval shows different things for the two images.
C34_DeniedAndUnavailableDiffer ==
    \A p, q \in Procs :
        ( WasDenied(p) /\ WasUnavailable(q) )
        => /\ result[p].status = 403
           /\ result[q].status = 503
           /\ get_images_batch_item(result[p]) # get_images_batch_item(result[q])

C36_LateFailureKeepsOpenedAt ==
    [][ \A p \in Procs :
          ( /\ pc[p] = "open_opened_at" /\ pc'[p] = "done"
            /\ ~store_down
            /\ Phase(redis) = "open"
            /\ CooldownRunning )
          => redis'[REDIS_KEY_OPENED_AT] = redis[REDIS_KEY_OPENED_AT] ]_vars


\* C37: deleting an image of a group bucket is authorized against the delete
\* permission: delete_image succeeds only when the permission check_access
\* was asked to grant is the delete permission scoped to the bucket's group,
\* so holding only the read permission for the group is not enough.
C37_DeleteNeedsDeletePermission ==
    result["p2"] = Deleted
    => loc["p2"].permission = "image:delete:group:" \o GroupOf(req["p2"].bucket)


\* C38: for every user and hourly window, the number of check_rate_limit
\* calls that returned allowed=true is at most max_uploads and so is the
\* stored upload_count, calls of one user running concurrently included.
C38_RateLimitNeverExceeded ==
    \A key \in DOMAIN upload_rate_limits :
        /\ upload_rate_limits[key] <= MaxUploads
        /\ allowed_calls[key] <= MaxUploads

============================================================================
